---------------------------- MODULE Spec2Model ----------------------------
(***************************************************************************)
(* A model of the Skat game server, skat_server.py: main() and its helpers *)
(* accept_players, decide_declarer and decide_game.  The modules card,     *)
(* rules, player and networking are imported by the server and are         *)
(* modelled from their documented interfaces.                              *)
(***************************************************************************)
EXTENDS Integers, Sequences, FiniteSets, TLC

(* ------------------------------ bounds --------------------------------- *)

\* Number of deck orders the shuffle may produce in the full-game model.
NumShuffles == 2

\* Number of plays, from the start of a game, in which get_play may return
\* the last card of the hand as well as the first.
FreePlays == 3

(* ------------------------- program constants --------------------------- *)

DeckSize == 32
HandSize == 10
NumRounds == 10
NumPlayers == 3
NumHumans == 2

PIDs == 1..NumPlayers

\* The successor of p in the cycle 1 -> 2 -> 3 -> 1.
Cyc(p) == (p % 3) + 1

(* ------------------------------- cards --------------------------------- *)

\* Card.get_deck(): 4 suits x 8 ranks, here numbered 1..32.
Cards == 1..DeckSize

\* Suits 0..3 are diamonds, hearts, spades, clubs (ascending precedence).
Suit(c) == (c - 1) \div 8

\* Ranks 0..7 are 7, 8, 9, 10, Jack, Queen, King, Ace (raw rank order).
Rank(c) == (c - 1) % 8

Jack == 4

\* The fixed point values: Ace 11, Ten 10, King 4, Queen 3, Jack 2.
PointValue(c) ==
    CASE Rank(c) = 7 -> 11
      [] Rank(c) = 3 -> 10
      [] Rank(c) = 6 -> 4
      [] Rank(c) = 5 -> 3
      [] Rank(c) = 4 -> 2
      [] OTHER -> 0

RECURSIVE count_points(_)
\* rules.count_points(cards): the sum of the point values of a card list.
count_points(cards) ==
    IF cards = <<>> THEN 0
    ELSE PointValue(Head(cards)) + count_points(Tail(cards))

\* The order sorted() and list.sort() put cards in.
CardLess(a, b) == a < b

sorted(s) == SortSeq(s, CardLess)

\* s[a:b] of Python, for 0 <= a <= b <= len(s).
Slice(s, a, b) == SubSeq(s, a + 1, b)

Range(s) == {s[j] : j \in 1..Len(s)}

\* The index of the first occurrence of x in s, 0 when there is none.
IndexOf(s, x) ==
    IF x \in Range(s) THEN CHOOSE j \in 1..Len(s) :
                               s[j] = x /\ \A m \in 1..(j - 1) : s[m] # x
    ELSE 0

\* list.remove(x): s without the first occurrence of x (x must occur).
Remove(s, x) ==
    SubSeq(s, 1, IndexOf(s, x) - 1) \o SubSeq(s, IndexOf(s, x) + 1, Len(s))

\* Card.shuffle_deck: the deck orders considered, the affine permutations
\* j -> a*j + b (mod 32) of the fresh deck, a odd.
ShuffledDeck(a, b) == [j \in 1..DeckSize |-> ((a * (j - 1) + b) % DeckSize) + 1]


(* ------------------------------- rules --------------------------------- *)

\* The trump tokens a declarer may send: one per suit, "grand" and "null".
SuitTokens == <<"diamonds", "hearts", "spades", "clubs">>

GameTokens == Range(SuitTokens) \cup {"grand", "null"}

\* A token outside the recognised vocabulary.
BadToken == "hello"

TrumpSuit(g) == CHOOSE s \in 0..3 : SuitTokens[s + 1] = g

\* Trump membership under game type g: Jacks and the declared suit in a
\* suit game, the Jacks alone in grand, nothing in null.
IsTrump(c, g) ==
    CASE g = "null" -> FALSE
      [] g = "grand" -> Rank(c) = Jack
      [] OTHER -> Rank(c) = Jack \/ Suit(c) = TrumpSuit(g)

\* Strength of a card within its comparison set: raw rank in null; else the
\* Jacks on top by suit precedence, the rest by card value (7 8 9 Q K 10 A).
Strength(c, g) ==
    IF g = "null" THEN Rank(c)
    ELSE CASE Rank(c) = Jack -> 100 + Suit(c)
           [] Rank(c) = 7 -> 6
           [] Rank(c) = 3 -> 5
           [] Rank(c) = 6 -> 4
           [] Rank(c) = 5 -> 3
           [] OTHER -> Rank(c)

\* The plays that can win a trick: the trumps when one was played, else the
\* cards of the led suit (the suit of the first card).
Contenders(trick, g) ==
    LET trumps == {j \in 1..Len(trick) : IsTrump(trick[j][2], g)}
    IN  IF trumps # {} THEN trumps
        ELSE {j \in 1..Len(trick) : Suit(trick[j][2]) = Suit(trick[1][2])}

\* rules.winner(plays): the (pid, card) pair of the strongest contender.
winner(trick, g) ==
    LET cs == Contenders(trick, g)
        w == CHOOSE j \in cs :
                 \A m \in cs : Strength(trick[m][2], g) <= Strength(trick[j][2], g)
    IN  trick[w]

\* BaseRules(pid, trumps): the rules object, for a recognised token.
BaseRules(p, trumps) == [declarer |-> p, trumps |-> trumps]

NoRules == [declarer |-> 0, trumps |-> ""]

(* ------------------------------- state --------------------------------- *)

VARIABLES
    pc,          \* position of main's single thread of control
    fileOpen,    \* the log file is open
    file,        \* the records written to the log file
    socketOpen,  \* the listening socket is open
    deck,        \* the shuffled deck
    hands,       \* the three dealt hands, hands[1..3] for hands[0..2]
    skat,        \* deck[30:32]
    hand,        \* player.hand by pid
    cards_won,   \* player.cards_won by pid
    conns,       \* the pids whose connections are in conns, in order
    bets,        \* the get_bet responses so far, in the order asked
    declarer,    \* pid of the declarer, 0 for None
    hidden,      \* the hidden-cards payload received from the declarer
    rules,       \* the rules object
    pid,         \* the participant on turn
    r,           \* rounds completed
    i,           \* plays made in the current round
    k,           \* next player of a `for player in players.values()` loop
    plays,       \* the current round's plays, (pid, card) pairs
    card,        \* the card get_play returned last
    net,         \* sends and participant requests since the round began
    count,       \* number of sends and requests so far, by kind
    winners,     \* the pid rules.winner returned for each round resolved
    scores,      \* the (pid, points) result lines broadcast
    error,       \* the exception that ended main, "" if none
    status,      \* main's return value, -1 while it has not returned
    lossy,       \* the connections of this run may fail
    lost         \* a send to a participant not on turn has failed

vars == <<pc, fileOpen, file, socketOpen, deck, hands, skat, hand, cards_won,
          conns, bets, declarer, hidden, rules, pid, r, i, k, plays, card,
          net, count, winners, scores, error, status, lossy, lost>>

\* Players 1 and 2 are HumanPlayers with a connection, player 3 is the bot.
IsHuman(p) == p <= NumHumans

Kinds == {"get_bet", "declarer", "skat", "hidden", "trumps", "game", "rules",
          "wait", "get_play", "played", "card", "winner", "score"}

Event(kind, to, who, val) == [kind |-> kind, to |-> to, who |-> who, val |-> val]

\* broadcast_str / broadcast_msg: one send per connection, in conns order.
Broadcast(kind, who, val) == [j \in 1..Len(conns) |-> Event(kind, conns[j], who, val)]

RECURSIVE Tally(_, _)
Tally(cnt, evs) ==
    IF evs = <<>> THEN cnt
    ELSE Tally([cnt EXCEPT ![Head(evs).kind] = @ + 1], Tail(evs))

\* The state main starts in; l tells whether the connections may fail.
Start(l) ==
    /\ pc = "open_log"
    /\ fileOpen = FALSE
    /\ file = <<>>
    /\ socketOpen = FALSE
    /\ deck = <<>>
    /\ hands = <<>>
    /\ skat = <<>>
    /\ hand = [p \in PIDs |-> <<>>]
    /\ cards_won = [p \in PIDs |-> <<>>]
    /\ conns = <<>>
    /\ bets = <<>>
    /\ declarer = 0
    /\ hidden = <<>>
    /\ rules = NoRules
    /\ pid = 0
    /\ r = 0
    /\ i = 0
    /\ k = 0
    /\ plays = <<>>
    /\ card = 0
    /\ net = <<>>
    /\ count = [kd \in Kinds |-> 0]
    /\ winners = <<>>
    /\ scores = <<>>
    /\ error = ""
    /\ status = -1
    /\ lossy = l
    /\ lost = FALSE

\* A run over connections that do not fail.
Init == Start(FALSE)

\* The outcomes of a send to a participant that is not on turn: a failed
\* send is logged and ignored by the transport, the game goes on.
MayLose == IF lossy THEN {lost, TRUE} ELSE {lost}

(* ------------------------- main: setting up ---------------------------- *)

\* One line of the log file.
Record(kind, p, game, cards, trick) ==
    [kind |-> kind, pid |-> p, game |-> game, cards |-> cards, plays |-> trick]

\* main ends with an uncaught exception: nothing after the raise runs.
Raise(e) ==
    /\ pc' = "raised"
    /\ error' = e

\* open("debug.txt", "w") / open("log/...", "a").
OpenLog ==
    /\ pc = "open_log"
    /\ fileOpen' = TRUE
    /\ pc' = "deal"
    /\ UNCHANGED <<file, socketOpen, deck, hands, skat, hand, cards_won, conns,
                   bets, declarer, hidden, rules, pid, r, i, k, plays, card,
                   net, count, winners, scores, error, status, lossy, lost>>

\* hands = [sorted(deck[0:10]), sorted(deck[10:20]), sorted(deck[20:30])]
DealHands(d) == [j \in 1..NumPlayers |->
                    sorted(Slice(d, (j - 1) * HandSize, j * HandSize))]

\* The skat cut one position early: deck[29:31].
DealSkat_Early(d) == Slice(d, NumPlayers * HandSize - 1, DeckSize - 1)

\* skat = deck[30:32]
DealSkat(d) == Slice(d, NumPlayers * HandSize, DeckSize)

\* Generate hands, from deck order d.
DealFrom(d) ==
    /\ pc = "deal"
    /\ deck' = d
    /\ hands' = DealHands(d)
    /\ skat' = DealSkat(d)
    /\ pc' = "open_socket"
    /\ UNCHANGED <<fileOpen, file, socketOpen, hand, cards_won, conns, bets,
                   declarer, hidden, rules, pid, r, i, k, plays, card, net,
                   count, winners, scores, error, status, lossy, lost>>

Deal == \E s \in 0..(NumShuffles - 1) : DealFrom(ShuffledDeck(2 * s + 3, 5 * s))

\* server_socket = open_socket(50007)
OpenSocket ==
    /\ pc = "open_socket"
    /\ socketOpen' = TRUE
    /\ pc' = "accept"
    /\ UNCHANGED <<fileOpen, file, deck, hands, skat, hand, cards_won, conns,
                   bets, declarer, hidden, rules, pid, r, i, k, plays, card,
                   net, count, winners, scores, error, status, lossy, lost>>

\* accept_players: players 1 and 2 are human and get hands[0], hands[1];
\* player 3 is the bot and gets hands[2].  conns lists the humans' connections.
AcceptPlayers ==
    /\ pc = "accept"
    /\ hand' = [p \in PIDs |-> hands[p]]
    /\ cards_won' = [p \in PIDs |-> <<>>]
    /\ conns' = [j \in 1..NumHumans |-> j]
    /\ pc' = "log_hands"
    /\ UNCHANGED <<fileOpen, file, socketOpen, deck, hands, skat, bets,
                   declarer, hidden, rules, pid, r, i, k, plays, card, net,
                   count, winners, scores, error, status, lossy, lost>>

\* for player in players.values(): file.write((pid, name, hand))
LogHands ==
    /\ pc = "log_hands"
    /\ file' = file \o [p \in PIDs |-> Record("hand", p, NoRules, hand[p], <<>>)]
    /\ pc' = "bet"
    /\ k' = 1
    /\ UNCHANGED <<fileOpen, socketOpen, deck, hands, skat, hand, cards_won,
                   conns, bets, declarer, hidden, rules, pid, r, i, plays, card,
                   net, count, winners, scores, error, status, lossy, lost>>

(* --------------------------- decide_declarer --------------------------- *)

\* What a participant may answer to get_bet.
Responses == {"y", "n"}

\* First affirmative answer wins: later ones do not override it.
NextDeclarer_First(cur, p, response) ==
    IF response = "y" /\ cur = 0 THEN p ELSE cur

\* declarer = player if response == "y" else declarer
NextDeclarer(cur, p, response) == IF response = "y" THEN p ELSE cur

\* One iteration of decide_declarer's loop: player k is asked for its bet.
GetBet ==
    /\ pc = "bet"
    /\ \E response \in Responses :
         /\ bets' = Append(bets, response)
         /\ declarer' = NextDeclarer(declarer, k, response)
    /\ net' = Append(net, Event("get_bet", k, k, 0))
    /\ count' = Tally(count, <<Event("get_bet", k, k, 0)>>)
    /\ k' = k + 1
    /\ pc' = IF k < NumPlayers THEN "bet" ELSE "declared"
    /\ UNCHANGED <<fileOpen, file, socketOpen, deck, hands, skat, hand,
                   cards_won, conns, hidden, rules, pid, r, i, plays, card,
                   winners, scores, error, status, lossy, lost>>

\* The early return left out: the resources are closed and main goes on.
NoDeclarer_FallsThrough ==
    /\ pc = "declared"
    /\ declarer = 0
    /\ fileOpen' = FALSE
    /\ socketOpen' = FALSE
    /\ net' = net \o Broadcast("declarer", declarer, 0)
    /\ count' = Tally(count, Broadcast("declarer", declarer, 0))
    /\ pc' = "send_skat"
    /\ UNCHANGED <<file, deck, hands, skat, hand, cards_won, conns, bets,
                   declarer, hidden, rules, pid, r, i, k, plays, card,
                   winners, scores, error, status, lossy, lost>>

\* if not declarer: file.close(); server_socket.close(); return 1
NoDeclarer ==
    /\ pc = "declared"
    /\ declarer = 0
    /\ fileOpen' = FALSE
    /\ socketOpen' = FALSE
    /\ status' = 1
    /\ pc' = "done"
    /\ UNCHANGED <<file, deck, hands, skat, hand, cards_won, conns, bets,
                   declarer, hidden, rules, pid, r, i, k, plays, card, net,
                   count, winners, scores, error, lossy, lost>>

\* broadcast_str(conns, declarer.name + " is playing!")
AnnounceDeclarer ==
    /\ pc = "declared"
    /\ declarer # 0
    /\ net' = net \o Broadcast("declarer", declarer, 0)
    /\ count' = Tally(count, Broadcast("declarer", declarer, 0))
    /\ pc' = "send_skat"
    /\ lost' \in MayLose
    /\ UNCHANGED <<fileOpen, file, socketOpen, deck, hands, skat, hand,
                   cards_won, conns, bets, declarer, hidden, rules, pid, r, i,
                   k, plays, card, winners, scores, error, status, lossy>>

(* ----------------------------- decide_game ----------------------------- *)

\* send_msg(declarer.conn, pickle.dumps(skat)); the bot has no connection.
SendSkat ==
    /\ pc = "send_skat"
    /\ IF IsHuman(declarer)
         THEN /\ net' = Append(net, Event("skat", declarer, declarer, 0))
              /\ count' = Tally(count, <<Event("skat", declarer, declarer, 0)>>)
              /\ pc' = "recv_hidden"
              /\ UNCHANGED error
         ELSE /\ Raise("NoConnection")
              /\ UNCHANGED <<net, count>>
    /\ UNCHANGED <<fileOpen, file, socketOpen, deck, hands, skat, hand,
                   cards_won, conns, bets, declarer, hidden, rules, pid, r, i,
                   k, plays, card, winners, scores, status, lossy, lost>>

\* The hidden-cards payloads considered, for a declarer holding h and the
\* skat s: too short, two held cards, a repeated card, a card of another
\* hand (x), and three cards.
HiddenPayloads(h, s, x) ==
    { <<>>, <<s[1]>>,
      <<s[1], s[2]>>, <<s[2], h[1]>>, <<h[2], h[1]>>,
      <<s[1], s[1]>>, <<s[1], x>>, <<x, s[1]>>,
      <<s[1], s[2], h[1]>> }

\* The hidden cards left in the hand: the two remove calls left out.
HideCards_KeepsCards(h, s, hid) ==
    CASE Len(hid) < 2 -> [hand |-> h \o s, error |-> "IndexError"]
      [] OTHER -> [hand |-> sorted(h \o s), error |-> ""]

\* Lines 59-62: hand.extend(skat); hand.remove(hidden[0]);
\* hand.remove(hidden[1]); hand.sort().  The hand as the lines leave it and
\* the exception raised, "" if none.
HideCards(h, s, hid) ==
    LET h0 == h \o s
        h1 == Remove(h0, hid[1])
        h2 == Remove(h1, hid[2])
    IN  CASE Len(hid) < 1 -> [hand |-> h0, error |-> "IndexError"]
          [] Len(hid) >= 1 /\ hid[1] \notin Range(h0) ->
                 [hand |-> h0, error |-> "ValueError"]
          [] Len(hid) = 1 /\ hid[1] \in Range(h0) ->
                 [hand |-> h1, error |-> "IndexError"]
          [] Len(hid) >= 2 /\ hid[1] \in Range(h0) /\ hid[2] \notin Range(h1) ->
                 [hand |-> h1, error |-> "ValueError"]
          [] OTHER -> [hand |-> sorted(h2), error |-> ""]

\* The hidden cards not credited to the declarer.
WonAfterHiding_Dropped(won, hid) == won

\* declarer.cards_won.extend(hidden)
WonAfterHiding(won, hid) == won \o hid

\* hidden = pickle.loads(recv_msg(declarer.conn)) and lines 59-65.
RecvHidden ==
    /\ pc = "recv_hidden"
    /\ \E hid \in HiddenPayloads(hand[declarer], skat, hand[(declarer % NumPlayers) + 1][1]) :
         LET res == HideCards(hand[declarer], skat, hid)
         IN  /\ hidden' = hid
             /\ hand' = [hand EXCEPT ![declarer] = res.hand]
             /\ IF res.error = ""
                  THEN /\ cards_won' = [cards_won EXCEPT ![declarer] =
                                            WonAfterHiding(@, hid)]
                       /\ pc' = "recv_trumps"
                       /\ UNCHANGED error
                  ELSE /\ Raise(res.error)
                       /\ UNCHANGED cards_won
    /\ net' = Append(net, Event("hidden", declarer, declarer, 0))
    /\ count' = Tally(count, <<Event("hidden", declarer, declarer, 0)>>)
    /\ UNCHANGED <<fileOpen, file, socketOpen, deck, hands, skat, conns, bets,
                   declarer, rules, pid, r, i, k, plays, card, winners, scores, status, lossy, lost>>

\* trumps = recv_str(declarer.conn); rules = BaseRules(declarer.pid, trumps)
RecvTrumps ==
    /\ pc = "recv_trumps"
    /\ \E trumps \in GameTokens \cup {BadToken} :
         IF trumps \in GameTokens
           THEN /\ rules' = BaseRules(declarer, trumps)
                /\ pc' = "announce_game"
                /\ UNCHANGED error
           ELSE /\ Raise("InvalidDeclaration")
                /\ UNCHANGED rules
    /\ net' = Append(net, Event("trumps", declarer, declarer, 0))
    /\ count' = Tally(count, <<Event("trumps", declarer, declarer, 0)>>)
    /\ UNCHANGED <<fileOpen, file, socketOpen, deck, hands, skat, hand,
                   cards_won, conns, bets, declarer, hidden, pid, r, i, k,
                   plays, card, winners, scores, status, lossy, lost>>

\* broadcast_str(conns, announce); broadcast_msg(conns, pickle.dumps(rules))
AnnounceGame ==
    /\ pc = "announce_game"
    /\ net' = net \o Broadcast("game", declarer, 0) \o Broadcast("rules", declarer, 0)
    /\ count' = Tally(count, Broadcast("game", declarer, 0) \o Broadcast("rules", declarer, 0))
    /\ pc' = "log_game"
    /\ lost' \in MayLose
    /\ UNCHANGED <<fileOpen, file, socketOpen, deck, hands, skat, hand,
                   cards_won, conns, bets, declarer, hidden, rules, pid, r, i,
                   k, plays, card, winners, scores, error, status, lossy>>

\* Log the game parameters; pid = 1.
LogGame ==
    /\ pc = "log_game"
    /\ file' = Append(file, Record("game", declarer, rules, hand[declarer], <<>>))
    /\ pid' = 1
    /\ r' = 0
    /\ pc' = "round"
    /\ UNCHANGED <<fileOpen, socketOpen, deck, hands, skat, hand, cards_won,
                   conns, bets, declarer, hidden, rules, i, k, plays, card,
                   net, count, winners, scores, error, status, lossy, lost>>

(* ---------------------------- main: playing ---------------------------- *)

\* for r in range(0, 10): plays = []
StartRound ==
    /\ pc = "round"
    /\ r < NumRounds
    /\ plays' = <<>>
    /\ i' = 0
    /\ k' = 1
    /\ net' = <<>>
    /\ pc' = "make_play"
    /\ UNCHANGED <<fileOpen, file, socketOpen, deck, hands, skat, hand,
                   cards_won, conns, bets, declarer, hidden, rules, pid, r,
                   card, count, winners, scores, error, status, lossy, lost>>

\* The loop over the rounds left only after an eleventh round.
EndRounds_Never ==
    /\ pc = "round"
    /\ r > NumRounds
    /\ k' = 1
    /\ pc' = "score"
    /\ UNCHANGED <<fileOpen, file, socketOpen, deck, hands, skat, hand,
                   cards_won, conns, bets, declarer, hidden, rules, pid, r, i,
                   plays, card, net, count, winners, scores, error,
                   status, lossy, lost>>

\* The loop over the rounds is exhausted: on to the points.
EndRounds ==
    /\ pc = "round"
    /\ r >= NumRounds
    /\ k' = 1
    /\ pc' = "score"
    /\ UNCHANGED <<fileOpen, file, socketOpen, deck, hands, skat, hand,
                   cards_won, conns, bets, declarer, hidden, rules, pid, r, i,
                   plays, card, net, count, winners, scores, error,
                   status, lossy, lost>>

\* The cards get_play may return from hand h: a card of the hand, here its
\* first or its last card in the first plays of a game, its first card after.
PlayChoices(h) == IF count["get_play"] < FreePlays THEN {h[1], h[Len(h)]} ELSE {h[1]}

\* After player k of the `for player in players.values()` loop of a play.
AfterPlayer ==
    /\ k' = k + 1
    /\ pc' = IF k < NumPlayers THEN "make_play" ELSE "receive_play"

\* if player == players[pid]: card = player.get_play(plays, rules)
GetPlay ==
    /\ pc = "make_play"
    /\ k = pid
    /\ \E c \in PlayChoices(hand[k]) :
         /\ card' = c
         /\ hand' = [hand EXCEPT ![k] = Remove(@, c)]
    /\ net' = Append(net, Event("get_play", k, k, 0))
    /\ count' = Tally(count, <<Event("get_play", k, k, 0)>>)
    /\ AfterPlayer
    /\ UNCHANGED <<fileOpen, file, socketOpen, deck, hands, skat, cards_won,
                   conns, bets, declarer, hidden, rules, pid, r, i, plays,
                   winners, scores, error, status, lossy, lost>>

\* A failed waiting notice let out of main as an exception.
SendWaiting_Aborts ==
    /\ pc = "make_play"
    /\ k # pid
    /\ IsHuman(k)
    /\ net' = Append(net, Event("wait", k, pid, 0))
    /\ count' = Tally(count, <<Event("wait", k, pid, 0)>>)
    /\ \/ AfterPlayer /\ UNCHANGED <<error, lost>>
       \/ lossy /\ lost' = TRUE /\ Raise("TransportFailure") /\ UNCHANGED k
    /\ UNCHANGED <<fileOpen, file, socketOpen, deck, hands, skat, hand,
                   cards_won, conns, bets, declarer, hidden, rules, pid, r, i,
                   plays, card, winners, scores, status, lossy>>

\* elif isinstance(player, HumanPlayer): send_str(player.conn, "Waiting for
\* ... to play...")
SendWaiting ==
    /\ pc = "make_play"
    /\ k # pid
    /\ IsHuman(k)
    /\ net' = Append(net, Event("wait", k, pid, 0))
    /\ count' = Tally(count, <<Event("wait", k, pid, 0)>>)
    /\ AfterPlayer
    /\ lost' \in MayLose
    /\ UNCHANGED <<fileOpen, file, socketOpen, deck, hands, skat, hand,
                   cards_won, conns, bets, declarer, hidden, rules, pid, r, i,
                   plays, card, winners, scores, error, status, lossy>>

\* The bot, when it is not on turn: neither branch of the loop body.
SkipBot ==
    /\ pc = "make_play"
    /\ k # pid
    /\ ~IsHuman(k)
    /\ AfterPlayer
    /\ UNCHANGED <<fileOpen, file, socketOpen, deck, hands, skat, hand,
                   cards_won, conns, bets, declarer, hidden, rules, pid, r, i,
                   plays, card, net, count, winners, scores, error,
                   status, lossy, lost>>

\* The wrap-around one too early: (pid + 1) < 3.
NextPid_WrapsEarly(p) == IF p + 1 < NumPlayers THEN p + 1 ELSE 1

\* pid = (pid + 1) if (pid + 1) < 4 else 1
NextPid(p) == IF p + 1 < NumPlayers + 1 THEN p + 1 ELSE 1

\* The card sent ahead of the line that announces it.
PlayBroadcast_CardFirst(p, c) ==
    Broadcast("card", p, c) \o Broadcast("played", p, 0)

\* broadcast_str(conns, "<name> played"); broadcast_msg(conns, card)
PlayBroadcast(p, c) ==
    Broadcast("played", p, 0) \o Broadcast("card", p, c)

\* plays.append((pid, card)); broadcast the play; choose the next player.
ReceivePlay ==
    /\ pc = "receive_play"
    /\ plays' = Append(plays, <<pid, card>>)
    /\ net' = net \o PlayBroadcast(pid, card)
    /\ count' = Tally(count, PlayBroadcast(pid, card))
    /\ pid' = NextPid(pid)
    /\ i' = i + 1
    /\ k' = 1
    /\ pc' = IF i + 1 < NumPlayers THEN "make_play" ELSE "resolve"
    /\ lost' \in MayLose
    /\ UNCHANGED <<fileOpen, file, socketOpen, deck, hands, skat, hand,
                   cards_won, conns, bets, declarer, hidden, rules, r, card,
                   winners, scores, error, status, lossy>>

\* [play[1] for play in plays]
TrickCards(trick) == [j \in 1..Len(trick) |-> trick[j][2]]

\* The participant that led the trick taken for its winner.
TrickWinner_Leader(trick, rls) == trick[1][1]

\* winner = players[winning_play[0]]
TrickWinner(trick, rls) == winner(trick, rls.trumps)[1]

\* One cards_won list shared by the three participants.
WonAfterTrick_Shared(won, w, trick) ==
    [p \in PIDs |-> won[p] \o TrickCards(trick)]

\* winner.cards_won.extend([play[1] for play in plays])
WonAfterTrick(won, w, trick) == [won EXCEPT ![w] = @ \o TrickCards(trick)]

\* The assignment left out: pid stays what the play loop left it.
NextLeader_Unchanged(w, p) == p

\* pid = winner.pid
NextLeader(w, p) == w

\* The round not logged.
LogRound_Skipped(f, trick) == f

\* file.write(repr(plays) + "\n")
LogRound(f, trick) == Append(f, Record("round", 0, NoRules, <<>>, trick))

\* Who won the round?  Broadcast it, give the winner the cards, make the
\* winner the next to start, log the round.
Resolve ==
    /\ pc = "resolve"
    /\ LET w == TrickWinner(plays, rules)
       IN  /\ net' = net \o Broadcast("winner", w, 0)
           /\ count' = Tally(count, Broadcast("winner", w, 0))
           /\ cards_won' = WonAfterTrick(cards_won, w, plays)
           /\ pid' = NextLeader(w, pid)
           /\ winners' = Append(winners, w)
    /\ file' = LogRound(file, plays)
    /\ r' = r + 1
    /\ pc' = "round"
    /\ lost' \in MayLose
    /\ UNCHANGED <<fileOpen, socketOpen, deck, hands, skat, hand, conns, bets,
                   declarer, hidden, rules, i, k, plays, card, scores,
                   error, status, lossy>>

(* ---------------------------- main: scoring ---------------------------- *)

\* Every result line computed from the declarer's cards.
Points_OfDeclarer(p) == count_points(cards_won[declarer])

\* points = rules.count_points(player.cards_won), for player k.
Points(p) == count_points(cards_won[p])

\* One iteration of the loop over the players: broadcast player k's points.
Score ==
    /\ pc = "score"
    /\ scores' = Append(scores, <<k, Points(k)>>)
    /\ net' = net \o Broadcast("score", k, Points(k))
    /\ count' = Tally(count, Broadcast("score", k, Points(k)))
    /\ k' = k + 1
    /\ pc' = IF k < NumPlayers THEN "score" ELSE "finish"
    /\ lost' \in MayLose
    /\ UNCHANGED <<fileOpen, file, socketOpen, deck, hands, skat, hand,
                   cards_won, conns, bets, declarer, hidden, rules, pid, r, i,
                   plays, card, winners, error, status, lossy>>

\* file.close(); server_socket.close(); return 0
Finish ==
    /\ pc = "finish"
    /\ fileOpen' = FALSE
    /\ socketOpen' = FALSE
    /\ status' = 0
    /\ pc' = "done"
    /\ UNCHANGED <<file, deck, hands, skat, hand, cards_won, conns, bets,
                   declarer, hidden, rules, pid, r, i, k, plays, card, net,
                   count, winners, scores, error, lossy, lost>>

(* --------------------------- specification ----------------------------- *)

Next ==
    \/ OpenLog
    \/ Deal
    \/ OpenSocket
    \/ AcceptPlayers
    \/ LogHands
    \/ GetBet
    \/ NoDeclarer
    \/ AnnounceDeclarer
    \/ SendSkat
    \/ RecvHidden
    \/ RecvTrumps
    \/ AnnounceGame
    \/ LogGame
    \/ StartRound
    \/ EndRounds
    \/ GetPlay
    \/ SendWaiting
    \/ SkipBot
    \/ ReceivePlay
    \/ Resolve
    \/ Score
    \/ Finish

Spec == Init /\ [][Next]_vars

\* main is one sequential thread that blocks on each participant operation
\* and has no other way to wait: when every operation returns, the step that
\* is enabled is taken.
SpecLive == Init /\ [][Next]_vars /\ WF_vars(Next)

\* The deal alone, over every affine deck order: open, deal, accept, log.
DealAny ==
    \E a \in {2 * m + 1 : m \in 0..(DeckSize \div 2 - 1)}, b \in 0..(DeckSize - 1) :
        DealFrom(ShuffledDeck(a, b))

NextDeal ==
    \/ OpenLog
    \/ DealAny
    \/ OpenSocket
    \/ AcceptPlayers
    \/ LogHands

SpecDeal == Init /\ [][NextDeal]_vars

\* A run over connections that may fail.
InitFaulty == Start(TRUE)

\* A direct exchange with a remote participant fails: the bet request, the
\* skat, hidden-card and game-type exchange with the declarer, or the request
\* for the play of the participant on turn. Nothing in main catches it.
FailExchange ==
    /\ lossy
    /\ \/ pc = "bet" /\ IsHuman(k)
       \/ pc \in {"send_skat", "recv_hidden", "recv_trumps"} /\ IsHuman(declarer)
       \/ pc = "make_play" /\ k = pid /\ IsHuman(k)
    /\ Raise("ProtocolViolation")
    /\ UNCHANGED <<fileOpen, file, socketOpen, deck, hands, skat, hand,
                   cards_won, conns, bets, declarer, hidden, rules, pid, r, i,
                   k, plays, card, net, count, winners, scores, status, lossy,
                   lost>>

NextFaulty ==
    \/ Next
    \/ FailExchange

SpecFaulty == InitFaulty /\ [][NextFaulty]_vars

\* The tricks of three distinct cards, led by any participant and played in
\* turn order.
Tricks ==
    {<<<<p, c[1]>>, <<Cyc(p), c[2]>>, <<Cyc(Cyc(p)), c[3]>>>> :
        p \in PIDs,
        c \in {d \in Cards \X Cards \X Cards :
                  d[1] # d[2] /\ d[1] # d[3] /\ d[2] # d[3]}}

\* The third play of a round has been made and broadcast: any trick, under
\* any game type.
InitTrick ==
    /\ pc = "resolve"
    /\ fileOpen = TRUE
    /\ file = <<>>
    /\ socketOpen = TRUE
    /\ deck = <<>>
    /\ hands = <<>>
    /\ skat = <<>>
    /\ hand = [p \in PIDs |-> <<>>]
    /\ cards_won = [p \in PIDs |-> <<>>]
    /\ conns = <<1, 2>>
    /\ bets = <<>>
    /\ declarer = 1
    /\ hidden = <<>>
    /\ \E g \in GameTokens : rules = BaseRules(1, g)
    /\ plays \in Tricks
    /\ pid = plays[1][1]
    /\ r = 0
    /\ i = NumPlayers
    /\ k = 1
    /\ card = plays[NumPlayers][2]
    /\ net = <<>>
    /\ count = [kd \in Kinds |-> 0]
    /\ winners = <<>>
    /\ scores = <<>>
    /\ error = ""
    /\ status = -1
    /\ lossy = FALSE
    /\ lost = FALSE

NextTrick == Resolve

SpecTrick == InitTrick /\ [][NextTrick]_vars


(* ------------------------------ properties ----------------------------- *)

\* The positions of net holding an event of the given kind, and the
\* participants those events are about, in order.
At(kind) == {j \in 1..Len(net) : net[j].kind = kind}

IsKind(kind, e) == e.kind = kind

WhoOf(evs) == [j \in 1..Len(evs) |-> evs[j].who]

Asked == LET IsGetPlay(e) == IsKind("get_play", e)
         IN  WhoOf(SelectSeq(net, IsGetPlay))

\* The rounds resolved before the round whose events net holds.
RoundsBefore == IF At("winner") # {} THEN Len(winners) - 1 ELSE Len(winners)

\* The participant meant to lead the round after n resolved rounds.
LeaderAfter(n) == IF n = 0 THEN 1 ELSE winners[n]

\* C1: the first play of round 1 is requested from participant 1, and the
\* first play of every later round from the participant rules.winner
\* returned for the round before it.
C1_TurnOrder ==
    Asked # <<>> => Asked[1] = LeaderAfter(RoundsBefore)

\* Round 3 is being played, led by the winner of round 2, who is not the
\* winner of round 1, who is not participant 1.
C1_Witness ==
    /\ Len(winners) = 2
    /\ winners[1] # 1
    /\ winners[2] # winners[1]
    /\ At("winner") = {}
    /\ Asked # <<>>

\* The highest pid that answered "y" among the answers b, 0 if none did.
LastYes(b) ==
    IF \E p \in 1..Len(b) : b[p] = "y"
    THEN CHOOSE p \in 1..Len(b) : b[p] = "y" /\ \A q \in (p + 1)..Len(b) : b[q] # "y"
    ELSE 0

\* C2: decide_declarer asks each of the three participants for a bet once,
\* in the order 1, 2, 3, whatever the earlier answers were, and the declarer
\* is the highest-id participant that answered "y".
C2_LastYesDeclares ==
    /\ Len(bets) <= NumPlayers
    /\ count["get_bet"] = Len(bets)
    /\ declarer = LastYes(bets)
    /\ pc = "bet" => /\ Len(bets) < NumPlayers
                     /\ k = Len(bets) + 1
                     /\ WhoOf(net) = [j \in 1..Len(bets) |-> j]
    /\ pc \notin {"open_log", "deal", "open_socket", "accept", "log_hands", "bet"}
           => Len(bets) = NumPlayers
    /\ pc = "declared" => WhoOf(net) = <<1, 2, 3>>

\* The bets [no, yes, yes] were given and the declarer is participant 3.
C2_Witness ==
    /\ pc = "declared"
    /\ bets = <<"n", "y", "y">>
    /\ declarer = 3

\* The kinds of sends and requests of the phases after Declaring.
LaterKinds == Kinds \ {"get_bet"}

\* C3: when none of the three bets is "y", main returns 1 and nothing of a
\* later phase happens: no skat, no game selection, no get_play, no trick
\* resolved, no announcement, no score line; the log holds the three hands.
C3_NoDeclarerEnds ==
    (Len(bets) = NumPlayers /\ "y" \notin Range(bets)) =>
        /\ pc \in {"declared", "done"}
        /\ status = IF pc = "done" THEN 1 ELSE -1
        /\ \A kd \in LaterKinds : count[kd] = 0
        /\ winners = <<>> /\ scores = <<>> /\ plays = <<>>
        /\ rules = NoRules /\ hidden = <<>>
        /\ Len(file) = NumPlayers
        /\ \A j \in 1..Len(file) : file[j].kind = "hand" /\ file[j].pid = j

\* main has returned 1 after three negative bets.
C3_Witness ==
    /\ pc = "done"
    /\ status = 1
    /\ bets = <<"n", "n", "n">>

\* The cards the three participants have won, one list.
AllWon == cards_won[1] \o cards_won[2] \o cards_won[3]

\* The number of positions of s holding c.
Occurrences(s, c) == Cardinality({j \in 1..Len(s) : s[j] = c})

RECURSIVE SumOver(_, _)
SumOver(S, f) ==
    IF S = {} THEN 0
    ELSE LET x == CHOOSE y \in S : TRUE IN f[x] + SumOver(S \ {x}, f)

\* The points of the cards at the positions of a card list.
PointsOf(s) == SumOver(1..Len(s), [j \in 1..Len(s) |-> PointValue(s[j])])

\* C4: in a completed game in which the declarer hid two cards, the three
\* cards_won lists together hold each of the 32 cards exactly once, and the
\* three point totals sum to 120.
C4_AllCardsWon ==
    (status = 0 /\ Len(hidden) = 2) =>
        /\ \A c \in Cards : Occurrences(AllWon, c) = 1
        /\ Len(AllWon) = DeckSize
        /\ Len(scores) = NumPlayers
        /\ scores[1][2] + scores[2][2] + scores[3][2] = 120
        /\ PointsOf(AllWon) = 120

\* A completed game in which a hand card was hidden and every participant
\* won a trick.
C4_Witness ==
    /\ status = 0
    /\ Len(hidden) = 2
    /\ hidden[2] \notin Range(skat)
    /\ \A p \in PIDs : \E j \in 1..Len(winners) : winners[j] = p

\* The cards at deck positions a+1..b (positions a..b-1 counted from 0).
DeckCards(a, b) == {deck[j] : j \in (a + 1)..b}

\* C5: once dealt, the three hands (deck positions 0-9, 10-19, 20-29) and
\* the skat (positions 30-31) are pairwise disjoint, of sizes 10, 10, 10 and
\* 2, and cover the deck; participant p holds the hand of positions
\* 10(p-1)..10p-1.
C5_DealPartitions ==
    deck # <<>> =>
        /\ Range(deck) = Cards
        /\ \A p \in PIDs : /\ Len(hands[p]) = 10
                           /\ Range(hands[p]) = DeckCards(10 * (p - 1), 10 * p)
                           /\ Cardinality(Range(hands[p])) = 10
        /\ Len(skat) = 2
        /\ Range(skat) = DeckCards(30, 32)
        /\ Cardinality(Range(skat)) = 2
        /\ \A p, q \in PIDs : p # q => Range(hands[p]) \cap Range(hands[q]) = {}
        /\ \A p \in PIDs : Range(hands[p]) \cap Range(skat) = {}
        /\ UNION {Range(hands[p]) : p \in PIDs} \cup Range(skat) = Cards
        /\ pc \in {"log_hands", "bet"} => \A p \in PIDs : hand[p] = hands[p]
        /\ pc = "bet" => \A p \in PIDs : file[p].cards = hands[p]

\* The players hold the hands of a deck that is not in its fresh order.
C5_Witness ==
    /\ pc = "bet"
    /\ deck[1] # 1
    /\ deck[2] # deck[1] + 1
    /\ hand[3] = hands[3]
    /\ Len(hand[3]) = 10

\* The cards broadcast to the first connection since the round began.
CardsShown == LET IsCardTo1(e) == e.kind = "card" /\ e.to = 1
                  evs == SelectSeq(net, IsCardTo1)
              IN  [j \in 1..Len(evs) |-> evs[j].val]

\* The pids of a trick are p, Cyc(p), Cyc(Cyc(p)) for its leader p.
IsCyclic(whos) == \A j \in 2..Len(whos) : whos[j] = Cyc(whos[j - 1])

\* The trick lines of the log.
RoundLines == LET IsRound(rec) == rec.kind = "round" IN SelectSeq(file, IsRound)

\* C6: Playing is exactly 10 rounds; in each, get_play is invoked three
\* times, once per participant, in the cyclic order 1 -> 2 -> 3 -> 1 from
\* the round's leader, and the trick given to rules.winner holds the three
\* (pid, card) pairs in that order.
C6_TenRoundsOfThree ==
    /\ r <= NumRounds
    /\ Len(winners) = r
    /\ count["get_play"] = 3 * RoundsBefore + Len(Asked)
    /\ Len(Asked) <= 3
    /\ IsCyclic(Asked)
    /\ Len(plays) <= Len(Asked)
    /\ \A j \in 1..Len(plays) : plays[j][1] = Asked[j]
    /\ pc \in {"make_play", "receive_play", "resolve"} => CardsShown = TrickCards(plays)
    /\ pc = "receive_play" => Len(Asked) = Len(plays) + 1
    /\ pc = "resolve" => /\ Len(plays) = 3
                         /\ {plays[j][1] : j \in 1..3} = PIDs
    /\ \A n \in 1..Len(RoundLines) :
           /\ Len(RoundLines[n].plays) = 3
           /\ IsCyclic([j \in 1..3 |-> RoundLines[n].plays[j][1]])
           /\ RoundLines[n].plays[1][1] = LeaderAfter(n - 1)
    /\ pc \in {"score", "finish"} \/ status = 0 =>
           /\ r = NumRounds
           /\ count["get_play"] = 30

\* A trick led by the bot is about to be resolved: played in the order 3, 1, 2.
C6_Witness ==
    /\ pc = "resolve"
    /\ r >= 1
    /\ plays[1][1] = 3 /\ plays[2][1] = 1 /\ plays[3][1] = 2
    /\ Asked = <<3, 1, 2>>

\* The declarer's hidden-cards payload was taken: lines 59-65 raised nothing.
HiddenTaken == Len(hidden) >= 2 /\ error \notin {"IndexError", "ValueError"}

\* The cards played so far in the game: the logged tricks, the plays of the
\* current round and the card get_play returned last.
PlayedCards ==
    UNION {Range(TrickCards(RoundLines[n].plays)) : n \in 1..Len(RoundLines)}
        \cup Range(TrickCards(plays)) \cup (IF card = 0 THEN {} ELSE {card})

\* C7: the two cards the declarer hides are in the declarer's cards_won
\* from GameSelection on, before any get_play; they are never played and
\* are still there when the scores are computed; the other two
\* participants have won nothing when Playing starts.
C7_HiddenCardsWon ==
    HiddenTaken =>
        /\ Len(cards_won[declarer]) >= 2
        /\ cards_won[declarer][1] = hidden[1]
        /\ cards_won[declarer][2] = hidden[2]
        /\ hidden[1] \notin Range(hand[declarer])
        /\ hidden[2] \notin Range(hand[declarer])
        /\ {hidden[1], hidden[2]} \cap PlayedCards = {}
        /\ count["get_play"] = 0 =>
               /\ cards_won[declarer] = hidden
               /\ \A p \in PIDs \ {declarer} : cards_won[p] = <<>>

\* The scores are out in a game in which the declarer hid a skat card and
\* a hand card, and not only the declarer won tricks.
C7_Witness ==
    /\ status = 0
    /\ Len(hidden) = 2
    /\ hidden[1] \in Range(skat)
    /\ hidden[2] \in Range(hands[declarer])
    /\ Len(cards_won[declarer]) > 2
    /\ Len(cards_won[declarer]) < DeckSize

\* C8: main returns 0 only after all 10 rounds are resolved and three
\* result lines are broadcast, for participants 1, 2, 3 in this order, each
\* with the points of that participant's own cards_won; it returns 1 if and
\* only if no participant bet "y".
C8_ScoresAndStatus ==
    /\ Len(scores) <= NumPlayers
    /\ count["score"] = NumHumans * Len(scores)
    /\ scores # <<>> => r = NumRounds
    /\ \A p \in 1..Len(scores) : scores[p] = <<p, PointsOf(cards_won[p])>>
    /\ status \in {-1, 0, 1}
    /\ status = 0 => /\ pc = "done"
                     /\ Len(winners) = 10
                     /\ Len(scores) = 3
    /\ status = 1 => pc = "done" /\ "y" \notin Range(bets)
    /\ (pc = "done" /\ "y" \notin Range(bets)) => status = 1
    /\ (Len(bets) = NumPlayers /\ "y" \in Range(bets)) => status # 1

\* main has returned 0 and the three participants' points differ.
C8_Witness ==
    /\ status = 0
    /\ scores[1][2] # scores[2][2]
    /\ scores[2][2] # scores[3][2]
    /\ scores[1][2] # scores[3][2]
    /\ scores[declarer][2] > 0

\* The number of records the log holds at each point of main.
LinesDue ==
    CASE pc \in {"open_log", "deal", "open_socket", "accept", "log_hands"} -> 0
      [] pc \in {"bet", "declared", "send_skat", "recv_hidden", "recv_trumps",
                 "announce_game", "log_game", "raised"} -> 3
      [] pc = "done" /\ status = 1 -> 3
      [] OTHER -> 4 + Len(winners)

\* C9: the log of a game is 3 dealt-hand lines (participants 1, 2, 3), then
\* 1 declaration line (declarer, game, the declarer's hand after the skat
\* and the hiding), then a trick line for each round resolved, written with
\* the round's winner and before the next round's first play: 10 trick
\* lines in a completed game, nothing twice, nothing out of order.
C9_LogRecords ==
    /\ Len(file) = LinesDue
    /\ \A j \in 1..Len(file) :
         CASE j <= 3 -> /\ file[j].kind = "hand"
                        /\ file[j].pid = j
                        /\ file[j].cards = hands[j]
           [] j = 4 -> /\ file[j].kind = "game"
                       /\ file[j].pid = declarer
                       /\ file[j].game = rules
                       /\ rules.trumps \in GameTokens
                       /\ Len(file[j].cards) = 10
                       /\ Range(file[j].cards) =
                              (Range(hands[declarer]) \cup Range(skat))
                                  \ {hidden[1], hidden[2]}
                       /\ \A m \in 1..9 : file[j].cards[m] < file[j].cards[m + 1]
           [] OTHER -> /\ file[j].kind = "round"
                       /\ Len(file[j].plays) = 3
                       /\ j - 4 <= Len(winners)
                       /\ winner(file[j].plays, rules.trumps)[1] = winners[j - 4]
                       /\ \A m \in 5..(j - 1) : file[m].plays # file[j].plays
    /\ (At("get_play") # {} /\ At("winner") = {}) => Len(file) = 4 + RoundsBefore
    /\ status = 0 => Len(file) = 14

\* The log of a completed game: 14 lines, the last a trick the bot won.
C9_Witness ==
    /\ status = 0
    /\ Len(file) = 14
    /\ file[4].pid = 2
    /\ winners[10] = 3

\* The last position before j of net holding a get_play, 0 if none.
PlayBefore(j) ==
    IF \E m \in At("get_play") : m < j
    THEN CHOOSE m \in At("get_play") :
             m < j /\ \A n \in At("get_play") : n < j => n <= m
    ELSE 0

\* C10: before each get_play, every remote participant other than the one
\* on turn has been sent the waiting notice for that play.
C10_WaitingBeforePlay ==
    \A j \in At("get_play") :
        \A q \in Range(conns) \ {net[j].who} :
            \E m \in At("wait") : /\ PlayBefore(j) < m
                                  /\ m < j
                                  /\ net[m].to = q
                                  /\ net[m].who = net[j].who

\* The position in net of the n-th request for a play of the round.
AskedAt(n) ==
    CHOOSE j \in At("get_play") :
        Cardinality({m \in At("get_play") : m <= j}) = n

\* Between the positions lo and hi of net, each remote participant is sent
\* the "played" line of the play and, after it, the card.
ShownBetween(lo, hi, play) ==
    \A q \in 1..NumHumans :
        \E a, b \in (lo + 1)..(hi - 1) :
            /\ a < b
            /\ net[a] = Event("played", q, play[1], 0)
            /\ net[b] = Event("card", q, play[1], play[2])

\* C11: every play is broadcast to both remote participants, the "played"
\* line followed by the card, after it is obtained and before the next
\* participant is asked; the winner of a round is broadcast after the
\* broadcast of its third play and before any get_play of the round after
\* it; a completed game has made 30 play broadcasts and 10 winner broadcasts.
C11_PlaysAndWinnersBroadcast ==
    /\ \A n \in 1..Len(Asked) :
          (n < Len(Asked) \/ n <= Len(plays)) =>
              /\ n <= Len(plays)
              /\ plays[n][1] = Asked[n]
              /\ ShownBetween(AskedAt(n),
                              IF n < Len(Asked) THEN AskedAt(n + 1)
                                                ELSE Len(net) + 1,
                              plays[n])
    /\ Cardinality(At("played")) = NumHumans * Len(plays)
    /\ Cardinality(At("card")) = NumHumans * Len(plays)
    /\ \A w \in At("winner") :
          /\ Len(plays) = NumPlayers
          /\ net[w].who = winners[Len(winners)]
          /\ \A j \in At("card") \cup At("get_play") : j < w
    /\ {net[w].to : w \in At("winner")} \in {{}, 1..NumHumans}
    /\ count["winner"] = NumHumans * Len(winners)
    /\ (At("get_play") # {} /\ At("winner") = {}) => Len(winners) = r
    /\ status = 0 =>
          /\ count["played"] = NumHumans * NumRounds * NumPlayers
          /\ count["card"] = NumHumans * NumRounds * NumPlayers
          /\ count["winner"] = NumHumans * NumRounds

\* A game has been played to its end: 30 plays and 10 winners were broadcast
\* to the two remote participants.
C11_Witness ==
    /\ status = 0
    /\ count["played"] = 60
    /\ count["winner"] = 20

\* The card of the play that participant p made in the trick.
CardOf(trick, p) ==
    trick[CHOOSE j \in 1..Len(trick) : trick[j][1] = p][2]

\* C12: the winner of a trick is fixed by its three (id, card) pairs and the
\* game type; a played trump beats every played non-trump; when no trump was
\* played only a card of the led suit wins; the leader wins when no other
\* card played is a trump or of the led suit; the id that leads next is the
\* id paired with the winning card.
C12_WinnerOfTrick ==
    (pc = "round" /\ winners # <<>> /\ Len(plays) = NumPlayers) =>
        LET g == rules.trumps
            w == winners[Len(winners)]
            wc == CardOf(plays, w)
            led == plays[1][2]
            Played == TrickCards(plays)
        IN  /\ \E j \in 1..NumPlayers : plays[j][1] = w
            /\ <<w, wc>> = winner(plays, g)
            /\ (\E j \in 1..NumPlayers : IsTrump(Played[j], g)) => IsTrump(wc, g)
            /\ (\A j \in 1..NumPlayers : ~IsTrump(Played[j], g))
                   => Suit(wc) = Suit(led)
            /\ (\A j \in 2..NumPlayers :
                   ~IsTrump(Played[j], g) /\ Suit(Played[j]) # Suit(led))
                   => w = plays[1][1]
            /\ pid = w

\* A trick resolved in which the third participant, who did not lead, won
\* with a trump of another suit than the led one, over a higher card of the
\* led suit.
C12_Witness ==
    /\ pc = "round"
    /\ Len(winners) = 1
    /\ Len(plays) = NumPlayers
    /\ winners[1] = plays[3][1]
    /\ pid = plays[3][1]
    /\ IsTrump(plays[3][2], rules.trumps)
    /\ ~IsTrump(plays[1][2], rules.trumps)
    /\ Suit(plays[3][2]) # Suit(plays[1][2])
    /\ Suit(plays[2][2]) = Suit(plays[1][2])
    /\ Rank(plays[2][2]) > Rank(plays[1][2])

\* main has ended: it returned, or an exception left it.
Ended == pc \in {"done", "raised"}

\* C13: on every way main ends (the game played to its end, no declarer, a
\* fatal error while declaring, selecting the game or playing) the listening
\* socket and the log file have been closed.
C13_ResourcesReleased ==
    Ended => ~fileOpen /\ ~socketOpen

\* main is at a direct exchange with the participant on turn: a bet, the
\* skat, hidden-card and game-type exchange with the declarer, or a play.
DirectExchange ==
    \/ pc = "bet"
    \/ pc \in {"send_skat", "recv_hidden", "recv_trumps"}
    \/ pc = "make_play" /\ k = pid

CallKinds == {"get_bet", "get_play"}

\* C15: the automated participant, id 3, is never the target of a send or a
\* receive on a connection: no broadcast and no waiting notice goes to it,
\* and when it is the declarer the game is selected without connection I/O
\* and main goes on to the rounds.
C15_BotOffTheWire ==
    /\ \A j \in 1..Len(net) :
          net[j].kind \notin CallKinds => IsHuman(net[j].to)
    /\ error # "NoConnection"
    /\ declarer = NumPlayers => pc # "raised"

\* The declarer's hand with the skat taken up: the twelve cards it may hide
\* two of.
Twelve == Range(hands[declarer]) \cup Range(skat)

\* The hidden-card payload is two distinct cards of the twelve.
WellFormedHide ==
    /\ Len(hidden) = 2
    /\ hidden[1] # hidden[2]
    /\ Range(hidden) \subseteq Twelve

\* C16: a hidden-card payload that is not two distinct cards of the
\* declarer's twelve (too few, too many, a repeated card, a card not held)
\* ends main with an error before any play is asked for; it is never accepted
\* with cards_won gaining other cards than the hand lost.
C16_MalformedHideRejected ==
    count["hidden"] > 0 =>
        /\ ~WellFormedHide => (pc = "raised" /\ count["get_play"] = 0)
        /\ (pc # "raised" /\ count["get_play"] = 0) =>
               Range(cards_won[declarer]) = Twelve \ Range(hand[declarer])

\* C17: resolving a round appends the three cards of the trick, in play
\* order, to the cards_won of its winner and to no other; it leaves the
\* cards_won of the other two participants, the hands, the declarer, the
\* rules and the number of rounds to play as they were.
C17_TrickToWinnerOnly ==
    [][(pc = "resolve" /\ pc' = "round") =>
          LET w == winners'[Len(winners')]
          IN  /\ w = winner(plays, rules.trumps)[1]
              /\ cards_won'[w] = cards_won[w] \o TrickCards(plays)
              /\ \A p \in PIDs \ {w} : cards_won'[p] = cards_won[p]
              /\ hand' = hand
              /\ declarer' = declarer /\ hidden' = hidden /\ rules' = rules
              /\ plays' = plays
              /\ r' = r + 1 /\ r' <= NumRounds]_vars

\* The fourth round has been resolved; its winner did not lead it, had won
\* cards before, and its cards_won ends with the three cards of the trick.
C17_Witness ==
    /\ pc = "round"
    /\ Len(winners) = 4
    /\ LET w == winners[Len(winners)]
           n == Len(cards_won[w])
       IN  /\ w # plays[1][1]
           /\ n > NumPlayers
           /\ SubSeq(cards_won[w], n - 2, n) = TrickCards(plays)

\* main is blocked in an operation of the participant on turn.
Awaiting ==
    CASE pc = "bet" -> "get_bet"
      [] pc = "recv_hidden" -> "hidden"
      [] pc = "recv_trumps" -> "trumps"
      [] pc = "make_play" /\ k = pid -> "get_play"
      [] OTHER -> ""

\* main returned 1 after three bets and nothing else.
EndedWithoutDeclarer ==
    /\ pc = "done" /\ status = 1
    /\ count["get_bet"] = NumPlayers
    /\ count["skat"] = 0 /\ count["hidden"] = 0 /\ count["trumps"] = 0
    /\ count["get_play"] = 0

\* main returned 0 after three bets, one game-choice exchange and 30 plays.
EndedAfterGame ==
    /\ pc = "done" /\ status = 0
    /\ count["get_bet"] = NumPlayers
    /\ count["skat"] = 1 /\ count["hidden"] = 1 /\ count["trumps"] = 1
    /\ count["get_play"] = NumRounds * NumPlayers

\* An exception raised in game selection ended main: after three bets, at
\* most one game-choice exchange, before any play and without a status.
EndedInGameSelection ==
    /\ pc = "raised" /\ status = -1
    /\ count["get_bet"] = NumPlayers
    /\ count["skat"] <= 1 /\ count["hidden"] <= 1 /\ count["trumps"] <= 1
    /\ rules = NoRules
    /\ count["get_play"] = 0

\* C18, as the claim has it, for a remote declarer or none: when main has
\* ended it has returned 1 after exactly three bet requests, or 0 after
\* three bet requests, one game-choice exchange and exactly 30 play requests.
C18_EndsByReturning ==
    (Ended /\ IsHuman(declarer)) => (EndedWithoutDeclarer \/ EndedAfterGame)

\* C18, amended: when every participant operation returns, main ends: by
\* returning 1 after exactly three bet requests, by returning 0 after three
\* bet requests, one game-choice exchange and exactly 30 play requests, or by
\* an exception raised in game selection before any play request; while main
\* awaits an answer the only step is that answer, recorded once, with no
\* other request or broadcast.
C18_Terminates ==
    /\ <>Ended
    /\ [](Ended => \/ EndedWithoutDeclarer
                   \/ EndedAfterGame
                   \/ EndedInGameSelection)
    /\ [][Awaiting # "" =>
            /\ count' = [count EXCEPT ![Awaiting] = @ + 1]
            /\ Len(net') = Len(net) + 1
            /\ net'[Len(net')].kind = Awaiting]_vars

\* main was ended by the exception an unrecognised game type raises, after
\* three bets and the whole exchange with the declarer, before any play.
C18_Witness ==
    /\ EndedInGameSelection
    /\ error = "InvalidDeclaration"
    /\ count["trumps"] = 1
    /\ IsHuman(declarer)

\* The cards of every place a card can be in, one list: the three hands,
\* the skat until the declarer has taken it up, the trick being played with
\* the card just obtained for it, and the three cards_won.
Places ==
    (IF pc \in {"open_socket", "accept"}
       THEN hands[1] \o hands[2] \o hands[3]
       ELSE hand[1] \o hand[2] \o hand[3])
    \o (IF count["hidden"] = 0 THEN skat ELSE <<>>)
    \o (IF pc \in {"make_play", "receive_play", "resolve"}
          THEN TrickCards(plays) ELSE <<>>)
    \o (IF pc \in {"make_play", "receive_play"} /\ Len(Asked) > Len(plays)
          THEN <<card>> ELSE <<>>)
    \o AllWon

\* C19: from the deal on, each of the 32 cards is in exactly one place among
\* the hands, the skat, the trick being played and the cards_won; after game
\* selection the declarer holds 10 cards, at the start of round r (from 1)
\* every participant holds 11 - r cards, and all hands are empty when the
\* points are counted.
C19_CardsConserved ==
    (deck # <<>> /\ pc # "raised") =>
        /\ \A c \in Cards : Occurrences(Places, c) = 1
        /\ (rules # NoRules /\ count["get_play"] = 0) =>
               Len(hand[declarer]) = HandSize
        /\ (pc = "make_play" /\ i = 0 /\ k = 1) =>
               \A p \in PIDs : Len(hand[p]) = HandSize - r
        /\ pc \in {"score", "finish", "done"} /\ declarer # 0 =>
               \A p \in PIDs : hand[p] = <<>>

=============================================================================
